---- MODULE Spec2Model ----
(***************************************************************************)
(* Model of the Sensora backend's IFRA compliance validator                *)
(* (backend/app/chemistry/ifra_validator.py, class IFRAValidator) and of   *)
(* its rule retrieval engine (backend/app/core/physio_rag.py, PhysioRAG).  *)
(*                                                                         *)
(* Names are sequences of one-character strings, so that str.lower(), ==   *)
(* and the substring test `x in y` are computed rather than assumed.       *)
(* Concentrations and limits are integers in units of 0.001 percent, so    *)
(* the defaults 0.001, 1.0 and 100 of the code are 1, 1000 and 100000.     *)
(* The cas and recommendation fields of a violation are text that no       *)
(* branch of the validator reads; they are left out of the records.        *)
(***************************************************************************)
EXTENDS Integers, Sequences, FiniteSets, TLC

VARIABLES
    file,        \* settings.data_dir / "ifra_standards.json": whether it exists, and its JSON
    standards,   \* IFRAValidator._standards
    loaded,      \* IFRAValidator._loaded
    call,        \* the last public call and its arguments
    result       \* what that call returned, or the exception it raised

VARIABLES
    rules_file,  \* settings.data_dir / "physio_rules.json": whether it exists, and its JSON
    env,         \* which of chromadb and sentence_transformers can be imported
    rules,       \* PhysioRAG._rules
    collection,  \* PhysioRAG._collection: "None" or "Collection"
    embedder,    \* PhysioRAG._embedder: "None" or "Embedder"
    initialized, \* PhysioRAG._initialized
    index,       \* the ids added to the ChromaDB collection of the process, in order
    pc           \* where each concurrent caller of the engine stands

validator_vars == <<file, standards, loaded>>

engine_vars == <<rules_file, env, rules, collection, embedder, initialized, index>>

vars == <<validator_vars, call, result, engine_vars, pc>>

----------------------------------------------------------------------------
(* Bounds of the model *)

MaxIngredients == 2     \* longest ingredient list passed to validate_formula
MaxEntries == 2         \* most entries a policy file holds over its three lists
MaxFileRules == 2       \* most rules physio_rules.json holds
MaxRulesHeld == 4       \* initialize is not called again once _rules is this long
MaxN == 2               \* largest n_results passed to query
NumCallers == 2         \* callers making their first call at the same time

----------------------------------------------------------------------------
(* Values *)

\* A concentration that is not a number (a str, or None): ordering it against a
\* number raises TypeError in Python 3.  Numbers of the model are >= 0.
NonNumeric == -1

\* Defaults the code passes to dict.get, in units of 0.001 percent.
DefaultRestrictedMax == 0
DefaultPhototoxMax == 100000
DefaultThreshold == 1
DefaultMaxTotal == 1000

Categories == {"cat1", "cat2"}

IsNumber(x) == x >= 0

\* str.lower() on one character and on a name
LowerChar(c) ==
    CASE c = "A" -> "a"
      [] c = "B" -> "b"
      [] c = "C" -> "c"
      [] OTHER -> c

Lower(s) == [i \in 1..Len(s) |-> LowerChar(s[i])]

\* Python's `x in y` on two strings: x is a contiguous substring of y
\* (the empty string is a substring of every string).
StrIn(x, y) ==
    \E i \in 0..(Len(y) - Len(x)) : SubSeq(y, i + 1, i + Len(x)) = x

\* d.get(key, default): a dict is a record that holds only the keys present
Get(d, key, default) == IF key \in DOMAIN d THEN d[key] ELSE default

----------------------------------------------------------------------------
(* The policy file ifra_standards.json *)

EmptyStandards ==
    [restricted_substances |-> <<>>,
     allergens_declaration_required |-> <<>>,
     phototoxicity_limits |-> <<>>]

RestrictedEntries ==
    { [name |-> <<"a">>, max_concentration_cat1 |-> 0, max_concentration_cat2 |-> 2],
      [name |-> <<"A">>, max_concentration_cat1 |-> 2, max_concentration_cat2 |-> 0] }

AllergenEntries ==
    { [name |-> <<"a">>, threshold_cat2 |-> 3],
      [name |-> <<"a", "b">>, threshold_cat1 |-> 2, threshold_cat2 |-> 0],
      [name |-> <<"B">>, threshold_cat1 |-> 0, threshold_cat2 |-> 1] }

PhototoxEntries ==
    { [name |-> <<"a">>, max_concentration_cat1 |-> 2],
      [name |-> <<"A", "b">>, max_concentration_cat1 |-> 1] }

TotalLimits ==
    [cat1_leave_on |-> [max_total_percentage |-> 4],
     cat2_rinse_off |-> [max_total_percentage |-> 2]]

SeqUpTo(S, n) == UNION { [1..k -> S] : k \in 0..n }

PolicyTables ==
    { t \in [restricted_substances : SeqUpTo(RestrictedEntries, MaxEntries),
             allergens_declaration_required : SeqUpTo(AllergenEntries, MaxEntries),
             phototoxicity_limits : SeqUpTo(PhototoxEntries, MaxEntries)] :
        Len(t.restricted_substances) + Len(t.allergens_declaration_required)
            + Len(t.phototoxicity_limits) <= MaxEntries }

\* with and without the total_allergen_limits section
PolicyFiles ==
    PolicyTables
    \cup { [restricted_substances |-> t.restricted_substances,
            allergens_declaration_required |-> t.allergens_declaration_required,
            phototoxicity_limits |-> t.phototoxicity_limits,
            total_allergen_limits |-> TotalLimits] : t \in PolicyTables }

Files == { [exists |-> FALSE] } \cup { [exists |-> TRUE, json |-> f] : f \in PolicyFiles }

\* a file that is no JSON at all: json.load raises JSONDecodeError
NotJson == [exists |-> TRUE, text |-> "not json"]

\* a JSON file whose second allergen entry has no name
NamelessEntryFile ==
    [exists |-> TRUE,
     json |-> [restricted_substances |-> <<>>,
               allergens_declaration_required |->
                   << [name |-> <<"a", "b">>, threshold_cat1 |-> 2, threshold_cat2 |-> 0],
                      [threshold_cat1 |-> 1] >>,
               phototoxicity_limits |-> <<>>]]

\* a well-formed file with an entry in every table
FullFile ==
    [exists |-> TRUE,
     json |-> [restricted_substances |->
                   << [name |-> <<"a">>, max_concentration_cat1 |-> 0,
                       max_concentration_cat2 |-> 2] >>,
               allergens_declaration_required |->
                   << [name |-> <<"a", "b">>, threshold_cat1 |-> 2, threshold_cat2 |-> 0] >>,
               phototoxicity_limits |->
                   << [name |-> <<"A", "b">>, max_concentration_cat1 |-> 1] >>,
               total_allergen_limits |-> TotalLimits]]

SystemPolicyFiles == { [exists |-> FALSE], NotJson, NamelessEntryFile, FullFile }

----------------------------------------------------------------------------
(* Inputs *)

\* name and concentration are optional keys (ing.get); "A" equals the entry
\* names "a"/"A" up to case and lies inside "ab"; "aB" contains "a" and "b";
\* "c" matches no entry; a missing name reads as the empty string.
Ingredients ==
    { [name |-> <<"A">>, concentration |-> 1],
      [name |-> <<"A">>, concentration |-> 3],
      [name |-> <<"a", "B">>, concentration |-> 3],
      [name |-> <<"c">>, concentration |-> 3],
      [concentration |-> 3],
      [name |-> <<"A">>],
      [name |-> <<"A">>, concentration |-> NonNumeric],
      [name |-> <<"c">>, concentration |-> NonNumeric] }

IngredientLists == SeqUpTo(Ingredients, MaxIngredients)

QueryNames == { <<>>, <<"A">>, <<"a", "B">>, <<"b">>, <<"c">> }

----------------------------------------------------------------------------
(* IFRAValidator._load_standards: the tables in use after the call *)

\* an absent file read as a table that bans "a"
LoadStandardsBansByDefault ==
    IF loaded THEN standards
    ELSE IF ~file.exists
    THEN [EmptyStandards EXCEPT
            !.restricted_substances = <<[name |-> <<"a">>, max_concentration_cat1 |-> 0]>>]
    ELSE file.json

\* the file read again at every call
LoadStandardsEveryCall ==
    IF ~file.exists THEN EmptyStandards
    ELSE file.json

LoadStandards ==
    IF loaded THEN standards
    ELSE IF ~file.exists THEN EmptyStandards
    ELSE file.json

\* json.load (line 65) raises on a file that is no JSON; _loaded is not set
LoadStandardsRaises == ~loaded /\ file.exists /\ "json" \notin DOMAIN file

\* x['name'] raises KeyError on an entry without a name
HasName(entry) == "name" \in DOMAIN entry

AllNamed(entries) == \A i \in 1..Len(entries) : HasName(entries[i])

----------------------------------------------------------------------------
(* The dict comprehension {x['name'].lower(): x for x in entries}: one item *)
(* per distinct key, in the order the keys first appear, each holding the   *)
(* last entry with that key.                                                *)

LastWithKey(entries, k) ==
    entries[CHOOSE i \in 1..Len(entries) :
        /\ Lower(entries[i].name) = k
        /\ \A j \in (i + 1)..Len(entries) : Lower(entries[j].name) # k]

RECURSIVE DictItemsFrom(_, _)
DictItemsFrom(entries, i) ==
    IF i > Len(entries) THEN <<>>
    ELSE LET k == Lower(entries[i].name)
             first == \A j \in 1..(i - 1) : Lower(entries[j].name) # k
         IN  (IF first THEN <<[key |-> k, value |-> LastWithKey(entries, k)]>> ELSE <<>>)
             \o DictItemsFrom(entries, i + 1)

DictItems(entries) == DictItemsFrom(entries, 1)

HasKey(items, k) == \E i \in 1..Len(items) : items[i].key = k

Lookup(items, k) == items[CHOOSE i \in 1..Len(items) : items[i].key = k].value

----------------------------------------------------------------------------
(* IFRAValidator.validate_formula *)

Violation(name, type, conc, max, sev) ==
    [ingredient_name |-> name, violation_type |-> type,
     current_concentration |-> conc, max_allowed |-> max, severity |-> sev]

TotalAllergensName == <<"Total Allergens">>

EmptyAcc ==
    [violations |-> <<>>, allergens_to_declare |-> <<>>,
     total_allergen_load |-> 0, raised |-> FALSE]

Raise(acc) == [acc EXCEPT !.raised = TRUE]

AddViolation(acc, v) == [acc EXCEPT !.violations = Append(@, v)]

IngName(ing) == Get(ing, "name", <<>>)
IngConcentration(ing) == Get(ing, "concentration", 0)

\* lines 102-128
CheckRestricted(acc, ing, restricted_map) ==
    LET name == IngName(ing)
        concentration == IngConcentration(ing)
    IN  IF acc.raised \/ ~HasKey(restricted_map, Lower(name)) THEN acc
        ELSE LET restricted == Lookup(restricted_map, Lower(name))
                 max_conc == Get(restricted, "max_concentration_cat1", DefaultRestrictedMax)
             IN  IF max_conc = 0
                 THEN AddViolation(acc, Violation(name, "banned", concentration, 0, "critical"))
                 ELSE IF ~IsNumber(concentration) THEN Raise(acc)
                 ELSE IF concentration > max_conc
                 THEN AddViolation(acc, Violation(name, "over_limit", concentration, max_conc, "critical"))
                 ELSE acc

\* the test with its second operand mistyped: `name_lower in name_lower`
NameMatchesTypo(entry_name, name_lower) ==
    StrIn(entry_name, name_lower) \/ StrIn(name_lower, name_lower)

\* the test of lines 132 and 147
NameMatches(entry_name, name_lower) ==
    StrIn(entry_name, name_lower) \/ StrIn(name_lower, entry_name)

\* the phototoxicity loop flagging a concentration at its limit as well
RECURSIVE CheckPhototoxAtLimit(_, _, _, _)
CheckPhototoxAtLimit(acc, ing, phototox_map, i) ==
    IF acc.raised \/ i > Len(phototox_map) THEN acc
    ELSE LET name == IngName(ing)
             concentration == IngConcentration(ing)
             phototox == phototox_map[i].value
             max_conc == Get(phototox, "max_concentration_cat1", DefaultPhototoxMax)
             next ==
                 IF ~NameMatches(phototox_map[i].key, Lower(name)) THEN acc
                 ELSE IF ~IsNumber(concentration) THEN Raise(acc)
                 ELSE IF concentration >= max_conc
                 THEN AddViolation(acc, Violation(name, "phototoxicity", concentration, max_conc, "critical"))
                 ELSE acc
         IN  CheckPhototoxAtLimit(next, ing, phototox_map, i + 1)

\* lines 130-143
RECURSIVE CheckPhototox(_, _, _, _)
CheckPhototox(acc, ing, phototox_map, i) ==
    IF acc.raised \/ i > Len(phototox_map) THEN acc
    ELSE LET name == IngName(ing)
             concentration == IngConcentration(ing)
             phototox == phototox_map[i].value
             max_conc == Get(phototox, "max_concentration_cat1", DefaultPhototoxMax)
             next ==
                 IF ~NameMatches(phototox_map[i].key, Lower(name)) THEN acc
                 ELSE IF ~IsNumber(concentration) THEN Raise(acc)
                 ELSE IF concentration > max_conc
                 THEN AddViolation(acc, Violation(name, "phototoxicity", concentration, max_conc, "critical"))
                 ELSE acc
         IN  CheckPhototox(next, ing, phototox_map, i + 1)

\* lines 145-169
RECURSIVE CheckAllergens(_, _, _, _)
CheckAllergens(acc, ing, allergen_map, i) ==
    IF acc.raised \/ i > Len(allergen_map) THEN acc
    ELSE LET name == IngName(ing)
             concentration == IngConcentration(ing)
             allergen == allergen_map[i].value
             threshold == Get(allergen, "threshold_cat1", DefaultThreshold)
             next ==
                 IF ~NameMatches(allergen_map[i].key, Lower(name)) THEN acc
                 ELSE IF threshold = 0
                 THEN AddViolation(acc, Violation(name, "banned", concentration, 0, "critical"))
                 ELSE IF ~IsNumber(concentration) THEN Raise(acc)
                 ELSE IF concentration >= threshold
                 THEN [acc EXCEPT
                         !.allergens_to_declare =
                             Append(@, [name |-> name, concentration |-> concentration,
                                        threshold |-> threshold]),
                         !.total_allergen_load = @ + concentration]
                 ELSE acc
         IN  CheckAllergens(next, ing, allergen_map, i + 1)

\* lines 96-169: the loop over the ingredients
RECURSIVE CheckIngredients(_, _, _, _)
CheckIngredients(acc, ingredients, maps, i) ==
    IF acc.raised \/ i > Len(ingredients) THEN acc
    ELSE LET ing == ingredients[i]
             r == CheckRestricted(acc, ing, maps.restricted_map)
             p == CheckPhototox(r, ing, maps.phototox_map, 1)
             a == CheckAllergens(p, ing, maps.allergen_map, 1)
         IN  CheckIngredients(a, ingredients, maps, i + 1)

\* lines 90-93
LookupMaps(std) ==
    [restricted_map |-> DictItems(std.restricted_substances),
     allergen_map |-> DictItems(std.allergens_declaration_required),
     phototox_map |-> DictItems(std.phototoxicity_limits)]

\* lines 171-184
MaxTotal(std) ==
    Get(Get(Get(std, "total_allergen_limits", [none |-> TRUE]),
            "cat1_leave_on", [none |-> TRUE]),
        "max_total_percentage", DefaultMaxTotal)

CheckTotalLoad(acc, std) ==
    IF acc.total_allergen_load > MaxTotal(std)
    THEN AddViolation(acc, Violation(TotalAllergensName, "allergen_load",
                                     acc.total_allergen_load, MaxTotal(std), "warning"))
    ELSE acc

\* lines 186-188
CriticalViolations(violations) ==
    SelectSeq(violations, LAMBDA v : v.severity = "critical")

\* compliance decided on any violation at all instead of the critical ones
IsCompliantNoViolations(violations) == Len(violations) = 0

IsCompliant(violations) == Len(CriticalViolations(violations)) = 0

\* the last branch embedding len(violations) instead of len(critical_violations)
SummaryCountsAll(is_compliant, violations, allergens_to_declare) ==
    IF is_compliant /\ Len(violations) = 0
    THEN [kind |-> "fully_compliant"]
    ELSE IF is_compliant
    THEN [kind |-> "compliant_with_warnings", warnings |-> Len(violations),
          allergens |-> Len(allergens_to_declare)]
    ELSE [kind |-> "not_compliant", critical |-> Len(violations)]

\* lines 190-196: the f-strings, as the branch taken and the numbers embedded
Summary(is_compliant, violations, allergens_to_declare) ==
    IF is_compliant /\ Len(violations) = 0
    THEN [kind |-> "fully_compliant"]
    ELSE IF is_compliant
    THEN [kind |-> "compliant_with_warnings", warnings |-> Len(violations),
          allergens |-> Len(allergens_to_declare)]
    ELSE [kind |-> "not_compliant",
          critical |-> Len(CriticalViolations(violations))]

\* lines 84-205 once the standards are loaded
ValidateFormula(std, ingredients, product_category) ==
    LET checked == CheckIngredients(EmptyAcc, ingredients, LookupMaps(std), 1)
        acc == CheckTotalLoad(checked, std)
        is_compliant == IsCompliant(acc.violations)
    IN  IF ~(/\ AllNamed(std.restricted_substances)
             /\ AllNamed(std.allergens_declaration_required)
             /\ AllNamed(std.phototoxicity_limits))
        THEN [kind |-> "raised", error |-> "KeyError"]
        ELSE IF checked.raised THEN [kind |-> "raised", error |-> "TypeError"]
        ELSE [kind |-> "report",
              report |->
                [is_compliant |-> is_compliant,
                 violations |-> acc.violations,
                 allergens_to_declare |-> acc.allergens_to_declare,
                 total_allergen_load |-> acc.total_allergen_load,
                 product_category |-> product_category,
                 summary |-> Summary(is_compliant, acc.violations, acc.allergens_to_declare)]]

----------------------------------------------------------------------------
(* IFRAValidator.get_max_concentration, lines 207-232 *)

RECURSIVE FirstRestricted(_, _, _)
FirstRestricted(entries, name_lower, i) ==
    IF i > Len(entries) THEN [kind |-> "nomatch"]
    ELSE IF ~HasName(entries[i]) THEN [kind |-> "raised"]
    ELSE IF Lower(entries[i].name) = name_lower
    THEN [kind |-> "match", entry |-> entries[i]]
    ELSE FirstRestricted(entries, name_lower, i + 1)

RECURSIVE FirstPhototox(_, _, _)
FirstPhototox(entries, name_lower, i) ==
    IF i > Len(entries) THEN [kind |-> "nomatch"]
    ELSE IF ~HasName(entries[i]) THEN [kind |-> "raised"]
    ELSE IF StrIn(Lower(entries[i].name), name_lower)
    THEN [kind |-> "match", entry |-> entries[i]]
    ELSE FirstPhototox(entries, name_lower, i + 1)

\* Python's None is [kind |-> "none"]; a number n is [kind |-> "value", value |-> n]
Limit(entry, key) ==
    IF key \in DOMAIN entry THEN [kind |-> "value", value |-> entry[key]]
    ELSE [kind |-> "none"]

GetMaxConcentration(std, ingredient_name, product_category) ==
    LET name_lower == Lower(ingredient_name)
        r == FirstRestricted(std.restricted_substances, name_lower, 1)
        p == FirstPhototox(std.phototoxicity_limits, name_lower, 1)
    IN  IF r.kind = "raised" THEN [kind |-> "raised", error |-> "KeyError"]
        ELSE IF r.kind = "match" THEN Limit(r.entry, "max_concentration_cat1")
        ELSE IF p.kind = "raised" THEN [kind |-> "raised", error |-> "KeyError"]
        ELSE IF p.kind = "match" THEN Limit(p.entry, "max_concentration_cat1")
        ELSE [kind |-> "none"]

----------------------------------------------------------------------------
(* IFRAValidator.is_allergen, lines 234-244 *)

\* the test without its second half: only `entry in name`
IsAllergenOneWay(std, ingredient_name) ==
    LET name_lower == Lower(ingredient_name)
        allergens == std.allergens_declaration_required
    IN  \E i \in 1..Len(allergens) : StrIn(Lower(allergens[i].name), name_lower)

IsAllergen(std, ingredient_name) ==
    LET name_lower == Lower(ingredient_name)
        allergens == std.allergens_declaration_required
    IN  \E i \in 1..Len(allergens) :
            /\ \A j \in 1..i : HasName(allergens[j])
            /\ \/ StrIn(Lower(allergens[i].name), name_lower)
               \/ StrIn(name_lower, Lower(allergens[i].name))

\* the loop of lines 240-242 reaches an entry without a name before any match
IsAllergenRaises(std, ingredient_name) ==
    /\ ~AllNamed(std.allergens_declaration_required)
    /\ ~IsAllergen(std, ingredient_name)

----------------------------------------------------------------------------
(* PhysioRAG: values *)

\* JSON and profile values carry their Python type: a number (pH and
\* temperature in tenths), a str, a list, or None
Num(n) == [num |-> n]
Str(x) == [str |-> x]
List(l) == [list |-> l]
None == [none |-> TRUE]

\* isinstance(x, (int, float)), isinstance(x, str), isinstance(x, list)
IsNumeric(x) == "num" \in DOMAIN x
IsStr(x) == "str" \in DOMAIN x
IsList(x) == "list" \in DOMAIN x
IsNone(x) == "none" \in DOMAIN x

\* Python's == on two such values
PyEq(x, y) == DOMAIN x = DOMAIN y /\ x = y

\* Python's `value in user_value` on a list
PyInList(value, user_value) ==
    \E i \in 1..Len(user_value.list) : PyEq(user_value.list[i], value)

Condition(parameter, operator, value) ==
    [parameter |-> parameter, operator |-> operator, value |-> value]

\* the rules a file may hold; the fourth has no value key; target, action,
\* factor and reasoning are text that only the embedded document reads
RuleData ==
    { [id |-> "r1", condition |-> Condition("ph", "<", Num(52))],
      [id |-> "r2", condition |-> Condition("skin_type", "==", Str("dry"))],
      [id |-> "r3", condition |-> Condition("allergies", "contains", Str("nuts"))],
      [id |-> "r4", condition |-> [parameter |-> "ph", operator |-> "<"]],
      [id |-> "r5", condition |-> Condition("temperature", ">", Num(370))] }

DistinctIds(rs) == \A i, j \in 1..Len(rs) : i # j => rs[i].id # rs[j].id

RuleFiles ==
    { [exists |-> FALSE] }
    \cup { [exists |-> TRUE, json |-> [rules |-> rs]] :
             rs \in { x \in SeqUpTo(RuleData, MaxFileRules) : DistinctIds(x) } }

\* a rules file that is no JSON, one whose second rule has no id (rule_data['id']
\* raises KeyError after the first rule was appended), and a well-formed one
RulesNotJson == [exists |-> TRUE, text |-> "not json"]

RulesNoIdFile ==
    [exists |-> TRUE,
     json |-> [rules |-> << [id |-> "r1", condition |-> Condition("ph", "<", Num(52))],
                            [condition |-> Condition("skin_type", "==", Str("dry"))] >>]]

RulesFullFile ==
    [exists |-> TRUE,
     json |-> [rules |-> << [id |-> "r1", condition |-> Condition("ph", "<", Num(52))],
                            [id |-> "r2", condition |-> Condition("skin_type", "==", Str("dry"))] >>]]

SystemRuleFiles == { [exists |-> FALSE], RulesNotJson, RulesNoIdFile, RulesFullFile }

RulesOneFile ==
    [exists |-> TRUE,
     json |-> [rules |-> << [id |-> "r1", condition |-> Condition("ph", "<", Num(52))] >>]]

\* what the two sources may be replaced with while the process runs
ReplacementPolicyFiles == { [exists |-> FALSE], FullFile }

ReplacementRuleFiles == { [exists |-> FALSE], RulesOneFile, RulesFullFile }

AllInstalled == [chromadb |-> TRUE, sentence_transformers |-> TRUE]

Profiles ==
    { <<>>,
      [ph |-> Num(48), skin_type |-> Str("dry"), allergies |-> List(<<Str("nuts")>>)],
      [ph |-> Num(52)],
      [ph |-> Num(60), temperature |-> Num(375)],
      [ph |-> Str("acidic")],
      [skin_type |-> Str("Dry")],
      [skin_type |-> Num(3)],
      [allergies |-> Str("nuts")] }

NResults == (-1)..MaxN

Environments == [chromadb : BOOLEAN, sentence_transformers : BOOLEAN]

\* what a call into the embedding model or the index does when both import:
\* it works, or it raises something that is no ImportError
CallOutcomes == {"ok", "RuntimeError"}

----------------------------------------------------------------------------
(* PhysioRAG._keyword_query and get_applicable_rules: the condition test *)

\* lines 307-325 and 362-380
Matches(rule, user_profile) ==
    LET condition == rule.condition
        param == Get(condition, "parameter", "")
        operator == Get(condition, "operator", "")
        value == Get(condition, "value", None)
    IN  IF param \notin DOMAIN user_profile \/ IsNone(value) THEN FALSE
        ELSE LET user_value == user_profile[param]
             IN  IF operator = "<" /\ IsNumeric(user_value) /\ IsNumeric(value)
                 THEN user_value.num < value.num
                 ELSE IF operator = ">" /\ IsNumeric(user_value) /\ IsNumeric(value)
                 THEN user_value.num > value.num
                 ELSE IF operator = "=="
                 THEN PyEq(user_value, value)
                 ELSE IF operator = "contains" /\ IsList(user_value)
                 THEN PyInList(value, user_value)
                 ELSE FALSE

\* matched[:n_results]: a negative stop counts from the end
Slice(seq, n) ==
    IF n >= 0 THEN SubSeq(seq, 1, IF n < Len(seq) THEN n ELSE Len(seq))
    ELSE SubSeq(seq, 1, Len(seq) + n)

Retrieved(rule, num, den) ==
    [rule |-> rule, relevance_score |-> [num |-> num, den |-> den]]

\* the keyword path keeping the last n_results matches instead of the first
KeywordQueryKeepsLast(self_rules, user_profile, n_results) ==
    LET matching == SelectSeq(self_rules, LAMBDA r : Matches(r, user_profile))
        matched == [i \in 1..Len(matching) |-> Retrieved(matching[i], 9, 10)]
        k == Len(Slice(matched, n_results))
    IN  SubSeq(matched, Len(matched) - k + 1, Len(matched))

\* lines 301-336; every match scores 0.9, so the stable sort keeps the order
KeywordQuery(self_rules, user_profile, n_results) ==
    LET matching == SelectSeq(self_rules, LAMBDA r : Matches(r, user_profile))
        matched == [i \in 1..Len(matching) |-> Retrieved(matching[i], 9, 10)]
    IN  Slice(matched, n_results)

\* the matches, last rule first
ApplicableRulesNewestFirst(self_rules, user_profile) ==
    LET matching == SelectSeq(self_rules, LAMBDA r : Matches(r, user_profile))
    IN  [i \in 1..Len(matching) |-> matching[Len(matching) + 1 - i]]

\* lines 358-382
ApplicableRules(self_rules, user_profile) ==
    SelectSeq(self_rules, LAMBDA r : Matches(r, user_profile))

----------------------------------------------------------------------------
(* PhysioRAG.query: the query text, lines 236-267.  The text itself goes to *)
(* the embedding model; what the engine can observe is whether building it  *)
(* raises.                                                                  *)

QueryTextError(user_profile) ==
    IF "ph" \in DOMAIN user_profile /\ ~IsNumeric(user_profile.ph)
    THEN "TypeError"
    ELSE IF "skin_type" \in DOMAIN user_profile /\ ~IsStr(user_profile.skin_type)
    THEN "AttributeError"
    ELSE IF "temperature" \in DOMAIN user_profile /\ ~IsNumeric(user_profile.temperature)
    THEN "TypeError"
    ELSE IF /\ "allergies" \in DOMAIN user_profile
            /\ ~IsList(user_profile.allergies) /\ ~IsStr(user_profile.allergies)
    THEN "TypeError"
    ELSE "none"

----------------------------------------------------------------------------
(* PhysioRAG: the engine.  Its fields and the index travel as one record e. *)

NoError == "none"

Went(e) == [e |-> e, raised |-> NoError]
Raised(e, error) == [e |-> e, raised |-> error]

\* __init__, lines 64-68, and the empty collection of a fresh process
NewEngine ==
    [rules |-> <<>>, collection |-> "None", embedder |-> "None",
     initialized |-> FALSE, index |-> <<>>]

\* _load_rules, lines 93-115: the file's rules are appended to the list held
\* the rule_data before the first one that PhysioRule(...) cannot be built from
WellFormedPrefix(data) ==
    LET bad == { i \in 1..Len(data) : ~({"id", "condition"} \subseteq DOMAIN data[i]) }
    IN  IF bad = {} THEN data
        ELSE SubSeq(data, 1, (CHOOSE i \in bad : \A j \in bad : i <= j) - 1)

LoadRules(self_rules, rfile) ==
    IF ~rfile.exists THEN <<>>
    ELSE IF "json" \notin DOMAIN rfile THEN self_rules
    ELSE self_rules \o WellFormedPrefix(Get(rfile.json, "rules", <<>>))

\* what _load_rules raises: JSONDecodeError from json.load (line 102), KeyError
\* from rule_data['id'] (line 106), or nothing
LoadRulesError(rfile) ==
    IF ~rfile.exists THEN NoError
    ELSE IF "json" \notin DOMAIN rfile THEN "JSONDecodeError"
    ELSE IF WellFormedPrefix(Get(rfile.json, "rules", <<>>)) # Get(rfile.json, "rules", <<>>)
    THEN "KeyError"
    ELSE NoError

\* _embed_rules, lines 150-196: collection.add embeds the documents with the
\* embedder (which imports sentence_transformers at its first call, lines
\* 41-47) and then stores the ids
EmbedRules(e, environment, outcome) ==
    IF e.collection = "None" \/ Len(e.rules) = 0 THEN Went(e)
    ELSE IF ~environment.sentence_transformers THEN Raised(e, "ImportError")
    ELSE IF outcome # "ok" THEN Raised(e, outcome)
    ELSE Went([e EXCEPT !.index = e.index \o [i \in 1..Len(e.rules) |-> e.rules[i].id]])

\* _setup_vector_db, lines 117-148
SetupVectorDb(e, environment, outcome) ==
    IF ~environment.chromadb THEN Went([e EXCEPT !.collection = "None"])
    ELSE LET got == [e EXCEPT !.collection = "Collection"]
         IN  IF Len(got.index) = 0
             THEN LET r == EmbedRules(got, environment, outcome)
                  IN  IF r.raised = "ImportError"
                      THEN Went([got EXCEPT !.collection = "None"])
                      ELSE r
             ELSE Went(got)

\* initialize, lines 70-84; _setup_embedder (86-91) only constructs the object
Initialize(e, rfile, environment, use_vector_db, outcome) ==
    LET loaded_e == [e EXCEPT !.rules = LoadRules(e.rules, rfile)]
    IN  IF LoadRulesError(rfile) # NoError THEN Raised(loaded_e, LoadRulesError(rfile))
        ELSE IF use_vector_db
        THEN LET r == SetupVectorDb([loaded_e EXCEPT !.embedder = "Embedder"],
                                    environment, outcome)
             IN  IF r.raised # NoError THEN r
                 ELSE Went([r.e EXCEPT !.initialized = TRUE])
        ELSE Went([loaded_e EXCEPT !.initialized = TRUE])

\* the first lines of query and get_applicable_rules
EnsureInitialized(e, rfile, environment, outcome) ==
    IF ~e.initialized THEN Initialize(e, rfile, environment, TRUE, outcome)
    ELSE Went(e)

\* _get_rule_by_id, lines 338-343: the first rule with that id, or none
GetRuleById(self_rules, rule_id) ==
    LET found == SelectSeq(self_rules, LAMBDA r : r.id = rule_id)
    IN  IF Len(found) = 0 THEN <<>> ELSE <<found[1]>>

Min(a, b) == IF a < b THEN a ELSE b

\* distances the index reports, as whole numbers
Distances == {0, 1}

\* what collection.query may answer: the entries it ranks nearest, at most
\* n_results of them, nearest first
IndexAnswers(idx, n_results) ==
    LET k == IF n_results <= 0 THEN 0 ELSE Min(n_results, Len(idx))
    IN  { a \in [positions : [1..k -> 1..Len(idx)], distances : [1..k -> Distances]] :
            /\ \A i, j \in 1..k : i # j => a.positions[i] # a.positions[j]
            /\ \A i, j \in 1..k : i < j => a.distances[i] <= a.distances[j] }

\* the vector path reading the distance at the position in the list kept, not
\* at the position in the index's answer
VectorQueryMisaligned(e, environment, n_results, outcome, answer) ==
    IF ~environment.sentence_transformers THEN [kind |-> "raised", error |-> "ImportError"]
    ELSE IF outcome # "ok" THEN [kind |-> "raised", error |-> outcome]
    ELSE LET ids == [i \in 1..Len(answer.positions) |-> e.index[answer.positions[i]]]
             hit(i) == GetRuleById(e.rules, ids[i])
             kept == SelectSeq([i \in 1..Len(ids) |-> i], LAMBDA i : Len(hit(i)) > 0)
         IN  [kind |-> "rules",
              value |-> [j \in 1..Len(kept) |->
                           Retrieved(hit(kept[j])[1], 1, 1 + answer.distances[j])]]

\* _vector_query, lines 274-299
VectorQuery(e, environment, n_results, outcome, answer) ==
    IF ~environment.sentence_transformers THEN [kind |-> "raised", error |-> "ImportError"]
    ELSE IF outcome # "ok" THEN [kind |-> "raised", error |-> outcome]
    ELSE LET ids == [i \in 1..Len(answer.positions) |-> e.index[answer.positions[i]]]
             hit(i) == GetRuleById(e.rules, ids[i])
             kept == SelectSeq([i \in 1..Len(ids) |-> i], LAMBDA i : Len(hit(i)) > 0)
         IN  [kind |-> "rules",
              value |-> [j \in 1..Len(kept) |->
                           Retrieved(hit(kept[j])[1], 1, 1 + answer.distances[kept[j]])]]

\* query, lines 222-272, once the engine is initialized
Query(e, environment, user_profile, n_results, outcome, answer) ==
    IF QueryTextError(user_profile) # NoError
    THEN [kind |-> "raised", error |-> QueryTextError(user_profile)]
    ELSE IF e.collection # "None"
    THEN VectorQuery(e, environment, n_results, outcome, answer)
    ELSE [kind |-> "rules", value |-> KeywordQuery(e.rules, user_profile, n_results)]

\* get_applicable_rules, lines 345-382, once the engine is initialized
GetApplicableRules(e, user_profile) ==
    [kind |-> "rules", value |-> ApplicableRules(e.rules, user_profile)]

----------------------------------------------------------------------------
(* The validator as a state machine *)

\* the engine as the module's last line leaves it, with no rule file and no
\* optional package
EngineUnused ==
    /\ rules_file = [exists |-> FALSE]
    /\ env = [chromadb |-> FALSE, sentence_transformers |-> FALSE]
    /\ rules = NewEngine.rules
    /\ collection = NewEngine.collection
    /\ embedder = NewEngine.embedder
    /\ initialized = NewEngine.initialized
    /\ index = NewEngine.index
    /\ pc = <<>>

Init ==
    /\ file \in Files
    /\ standards = <<>>                 \* the empty dict
    /\ loaded = FALSE
    /\ call = [op |-> "none"]
    /\ result = [kind |-> "nothing"]
    /\ EngineUnused

\* validate_formula(ingredients, product_category)
Validate ==
    \E ingredients \in IngredientLists, product_category \in Categories :
        /\ call.op = "none"
        /\ standards' = (IF LoadStandardsRaises THEN standards ELSE LoadStandards)
        /\ loaded' = ~LoadStandardsRaises
        /\ call' = [op |-> "validate_formula", ingredients |-> ingredients,
                    product_category |-> product_category]
        /\ result' = IF LoadStandardsRaises
                     THEN [kind |-> "raised", error |-> "JSONDecodeError"]
                     ELSE ValidateFormula(LoadStandards, ingredients, product_category)
        /\ UNCHANGED <<file, engine_vars, pc>>

\* get_max_concentration(ingredient_name, product_category)
MaxConcentration ==
    \E ingredient_name \in QueryNames, product_category \in Categories :
        /\ call.op = "none"
        /\ standards' = (IF LoadStandardsRaises THEN standards ELSE LoadStandards)
        /\ loaded' = ~LoadStandardsRaises
        /\ call' = [op |-> "get_max_concentration", ingredient_name |-> ingredient_name,
                    product_category |-> product_category]
        /\ result' = IF LoadStandardsRaises
                     THEN [kind |-> "raised", error |-> "JSONDecodeError"]
                     ELSE GetMaxConcentration(LoadStandards, ingredient_name, product_category)
        /\ UNCHANGED <<file, engine_vars, pc>>

\* is_allergen(ingredient_name)
Allergen ==
    \E ingredient_name \in QueryNames :
        /\ call.op = "none"
        /\ standards' = (IF LoadStandardsRaises THEN standards ELSE LoadStandards)
        /\ loaded' = ~LoadStandardsRaises
        /\ call' = [op |-> "is_allergen", ingredient_name |-> ingredient_name]
        /\ result' = IF LoadStandardsRaises
                     THEN [kind |-> "raised", error |-> "JSONDecodeError"]
                     ELSE IF IsAllergenRaises(LoadStandards, ingredient_name)
                     THEN [kind |-> "raised", error |-> "KeyError"]
                     ELSE [kind |-> "bool", value |-> IsAllergen(LoadStandards, ingredient_name)]
        /\ UNCHANGED <<file, engine_vars, pc>>

\* The caller takes what the call returned (or catches what it raised); the
\* validator is idle again and keeps its tables.
Return ==
    /\ call.op # "none"
    /\ call' = [op |-> "none"]
    /\ result' = [kind |-> "nothing"]
    /\ UNCHANGED <<validator_vars, engine_vars, pc>>

Next == Validate \/ MaxConcentration \/ Allergen \/ Return

Spec == Init /\ [][Next]_vars

----------------------------------------------------------------------------
(* The engine as a state machine: one caller at a time *)

Self ==
    [rules |-> rules, collection |-> collection, embedder |-> embedder,
     initialized |-> initialized, index |-> index]

Becomes(e) ==
    /\ rules' = e.rules
    /\ collection' = e.collection
    /\ embedder' = e.embedder
    /\ initialized' = e.initialized
    /\ index' = e.index

InitRag ==
    /\ file = [exists |-> FALSE]
    /\ standards = <<>>
    /\ loaded = FALSE
    /\ call = [op |-> "none"]
    /\ result = [kind |-> "nothing"]
    /\ rules_file \in RuleFiles
    /\ env \in Environments
    /\ rules = NewEngine.rules
    /\ collection = NewEngine.collection
    /\ embedder = NewEngine.embedder
    /\ initialized = NewEngine.initialized
    /\ index = NewEngine.index
    /\ pc = <<>>

\* how many rules the next initialize would leave in _rules
RulesAfterLoad == Len(LoadRules(rules, rules_file))

\* initialize(use_vector_db)
DoInitialize ==
    \E use_vector_db \in BOOLEAN, outcome \in CallOutcomes :
        LET r == Initialize(Self, rules_file, env, use_vector_db, outcome)
        IN  /\ call.op = "none"
            /\ RulesAfterLoad <= MaxRulesHeld
            /\ Becomes(r.e)
            /\ call' = [op |-> "initialize", use_vector_db |-> use_vector_db]
            /\ result' = IF r.raised = NoError THEN [kind |-> "returned"]
                         ELSE [kind |-> "raised", error |-> r.raised]
            /\ UNCHANGED <<validator_vars, rules_file, env, pc>>

\* what collection.query returned (line 284): ids and distances, nearest first
Reported(idx, answer) ==
    [i \in 1..Len(answer.positions) |->
        [id |-> idx[answer.positions[i]], distance |-> answer.distances[i]]]

\* query(user_profile, n_results); the call keeps what the index returned when
\* the index was asked and answered
DoQuery ==
    \E user_profile \in Profiles, n_results \in NResults,
       add_outcome \in CallOutcomes, query_outcome \in CallOutcomes :
        LET r == EnsureInitialized(Self, rules_file, env, add_outcome)
        IN  /\ call.op = "none"
            /\ initialized \/ RulesAfterLoad <= MaxRulesHeld
            /\ Becomes(r.e)
            /\ \E answer \in IndexAnswers(r.e.index, n_results) :
                 LET out == IF r.raised # NoError
                            THEN [kind |-> "raised", error |-> r.raised]
                            ELSE Query(r.e, env, user_profile, n_results,
                                       query_outcome, answer)
                     asked == out.kind = "rules" /\ r.e.collection # "None"
                 IN  /\ result' = out
                     /\ call' = [op |-> "query", user_profile |-> user_profile,
                                 n_results |-> n_results,
                                 was_initialized |-> initialized,
                                 index_asked |-> asked,
                                 index_answer |-> IF asked
                                                  THEN Reported(r.e.index, answer)
                                                  ELSE <<>>]
            /\ UNCHANGED <<validator_vars, rules_file, env, pc>>

\* get_applicable_rules(user_profile)
DoGetApplicableRules ==
    \E user_profile \in Profiles, add_outcome \in CallOutcomes :
        LET r == EnsureInitialized(Self, rules_file, env, add_outcome)
        IN  /\ call.op = "none"
            /\ initialized \/ RulesAfterLoad <= MaxRulesHeld
            /\ Becomes(r.e)
            /\ call' = [op |-> "get_applicable_rules", user_profile |-> user_profile,
                        was_initialized |-> initialized]
            /\ result' = IF r.raised # NoError
                         THEN [kind |-> "raised", error |-> r.raised]
                         ELSE GetApplicableRules(r.e, user_profile)
            /\ UNCHANGED <<validator_vars, rules_file, env, pc>>

NextRag == DoInitialize \/ DoQuery \/ DoGetApplicableRules \/ Return

SpecRag == InitRag /\ [][NextRag]_vars

----------------------------------------------------------------------------
(* The validator and the engine of one process, over sources that may be    *)
(* absent, malformed or well-formed                                         *)

InitSystem ==
    /\ file \in SystemPolicyFiles
    /\ standards = <<>>
    /\ loaded = FALSE
    /\ call = [op |-> "none"]
    /\ result = [kind |-> "nothing"]
    /\ rules_file \in SystemRuleFiles
    /\ env \in Environments
    /\ rules = NewEngine.rules
    /\ collection = NewEngine.collection
    /\ embedder = NewEngine.embedder
    /\ initialized = NewEngine.initialized
    /\ index = NewEngine.index
    /\ pc = <<>>

NextSystem ==
    \/ Validate \/ MaxConcentration \/ Allergen
    \/ DoInitialize \/ DoQuery \/ DoGetApplicableRules
    \/ Return

SpecSystem == InitSystem /\ [][NextSystem]_vars

----------------------------------------------------------------------------
(* The same process while a source is replaced on disk: the file is         *)
(* deleted, created or rewritten between two calls.                         *)

PolicyFileReplaced ==
    \E f \in ReplacementPolicyFiles \ {file} :
        /\ call.op = "none"
        /\ file' = f
        /\ UNCHANGED <<standards, loaded, call, result, engine_vars, pc>>

RulesFileReplaced ==
    \E f \in ReplacementRuleFiles \ {rules_file} :
        /\ call.op = "none"
        /\ rules_file' = f
        /\ UNCHANGED <<validator_vars, call, result, env, rules, collection,
                       embedder, initialized, index, pc>>

\* the validator and the engine, the policy file replaced
InitPolicyReplaced ==
    /\ file \in ReplacementPolicyFiles
    /\ standards = <<>>
    /\ loaded = FALSE
    /\ call = [op |-> "none"]
    /\ result = [kind |-> "nothing"]
    /\ rules_file = RulesOneFile
    /\ env \in Environments
    /\ rules = NewEngine.rules
    /\ collection = NewEngine.collection
    /\ embedder = NewEngine.embedder
    /\ initialized = NewEngine.initialized
    /\ index = NewEngine.index
    /\ pc = <<>>

NextPolicyReplaced ==
    \/ Validate \/ MaxConcentration \/ Allergen
    \/ DoInitialize \/ DoQuery \/ DoGetApplicableRules
    \/ Return
    \/ PolicyFileReplaced

SpecPolicyReplaced == InitPolicyReplaced /\ [][NextPolicyReplaced]_vars

\* the engine, the rules file replaced
InitRulesReplaced ==
    /\ file = [exists |-> FALSE]
    /\ standards = <<>>
    /\ loaded = FALSE
    /\ call = [op |-> "none"]
    /\ result = [kind |-> "nothing"]
    /\ rules_file \in ReplacementRuleFiles
    /\ env = AllInstalled
    /\ rules = NewEngine.rules
    /\ collection = NewEngine.collection
    /\ embedder = NewEngine.embedder
    /\ initialized = NewEngine.initialized
    /\ index = NewEngine.index
    /\ pc = <<>>

NextRulesReplaced ==
    \/ DoInitialize \/ DoQuery \/ DoGetApplicableRules
    \/ Return
    \/ RulesFileReplaced

SpecRulesReplaced == InitRulesReplaced /\ [][NextRulesReplaced]_vars

----------------------------------------------------------------------------
(* The /validate endpoint of the API, formulation.py lines 295-334, over the  *)
(* module's validator                                                       *)

\* max_allergen_limit=1.0, in units of 0.001 %
EndpointMaxAllergenLimit == 1000

\* request.ingredients: pydantic has checked that name is a str and
\* concentration a float
RequestIngredients ==
    { ing \in Ingredients :
        /\ {"name", "concentration"} \subseteq DOMAIN ing
        /\ IsNumber(ing.concentration) }

RequestIngredientLists == SeqUpTo(RequestIngredients, MaxIngredients)

\* lines 309-319: a violation as the dict of the response; its recommendation
\* text is built from the same fields and stands as the dict itself
ResponseViolation(v) ==
    [ingredient |-> v.ingredient_name, type |-> v.violation_type,
     current |-> v.current_concentration, max_allowed |-> v.max_allowed,
     severity |-> v.severity]

\* lines 309-333
ValidationResponse(report) ==
    LET violations == [k \in 1..Len(report.violations) |->
                          ResponseViolation(report.violations[k])]
        warnings == SelectSeq(violations, LAMBDA v : v.severity = "warning")
    IN  [compliant |-> report.is_compliant,
         violations |-> violations,
         warnings |-> warnings,
         allergens_to_declare |-> report.allergens_to_declare,
         allergen_total |-> report.total_allergen_load,
         max_allergen_limit |-> EndpointMaxAllergenLimit,
         summary |-> report.summary]

\* POST /validate
ValidateEndpoint ==
    \E ingredients \in RequestIngredientLists, product_category \in Categories :
        LET out == ValidateFormula(LoadStandards, ingredients, product_category)
        IN  /\ call.op = "none"
            /\ standards' = (IF LoadStandardsRaises THEN standards ELSE LoadStandards)
            /\ loaded' = ~LoadStandardsRaises
            /\ call' = [op |-> "validate_endpoint", ingredients |-> ingredients,
                        product_category |-> product_category]
            /\ result' = IF LoadStandardsRaises
                         THEN [kind |-> "raised", error |-> "JSONDecodeError"]
                         ELSE IF out.kind = "raised" THEN out
                         ELSE [kind |-> "response",
                               response |-> ValidationResponse(out.report)]
            /\ UNCHANGED <<file, engine_vars, pc>>

NextApi == ValidateEndpoint \/ Return

SpecApi == Init /\ [][NextApi]_vars

----------------------------------------------------------------------------
(* The engine under concurrent first calls.  Each caller runs query or      *)
(* get_applicable_rules on the shared physio_rag object; nothing in the     *)
(* engine takes a lock, so the callers' statements interleave.  A caller    *)
(* goes through: the test of _initialized, _load_rules, the collection set  *)
(* up, the count() test, _embed_rules, the assignment of _initialized, and  *)
(* the rest of its call.                                                    *)

Callers == 1..NumCallers

InitConc ==
    /\ file = [exists |-> FALSE]
    /\ standards = <<>>
    /\ loaded = FALSE
    /\ call = [op |-> "none"]
    /\ result = [kind |-> "nothing"]
    /\ rules_file \in RuleFiles
    /\ env \in Environments
    /\ rules = NewEngine.rules
    /\ collection = NewEngine.collection
    /\ embedder = NewEngine.embedder
    /\ initialized = NewEngine.initialized
    /\ index = NewEngine.index
    /\ pc = [t \in Callers |-> "called"]

Goes(t, label) == pc' = [pc EXCEPT ![t] = label]

\* `if not self._initialized:` (lines 233, 355)
CallerTests ==
    \E t \in Callers :
        /\ pc[t] = "called"
        /\ Goes(t, IF initialized THEN "initialized" ELSE "load")
        /\ UNCHANGED <<validator_vars, call, result, engine_vars>>

\* self._load_rules() (line 78)
CallerLoads ==
    \E t \in Callers :
        /\ pc[t] = "load"
        /\ rules' = LoadRules(rules, rules_file)
        /\ Goes(t, "setup")
        /\ UNCHANGED <<validator_vars, call, result, rules_file, env,
                       collection, embedder, initialized, index>>

\* self._setup_embedder() and _setup_vector_db up to the count (lines 81, 119-140)
CallerSetsUp ==
    \E t \in Callers :
        /\ pc[t] = "setup"
        /\ embedder' = "Embedder"
        /\ collection' = IF env.chromadb THEN "Collection" ELSE "None"
        /\ Goes(t, IF env.chromadb THEN "count" ELSE "finish")
        /\ UNCHANGED <<validator_vars, call, result, rules_file, env,
                       rules, initialized, index>>

\* `if self._collection.count() == 0:` (line 143)
CallerCounts ==
    \E t \in Callers :
        /\ pc[t] = "count"
        /\ Goes(t, IF Len(index) = 0 THEN "embed" ELSE "finish")
        /\ UNCHANGED <<validator_vars, call, result, engine_vars>>

\* self._embed_rules() (line 144) and the handler of line 146
CallerEmbeds ==
    \E t \in Callers, outcome \in CallOutcomes :
        LET r == EmbedRules(Self, env, outcome)
        IN  /\ pc[t] = "embed"
            /\ index' = r.e.index
            /\ collection' = IF r.raised = "ImportError" THEN "None" ELSE collection
            /\ Goes(t, IF r.raised \in {NoError, "ImportError"} THEN "finish" ELSE "raised")
            /\ UNCHANGED <<validator_vars, call, result, rules_file, env,
                           rules, embedder, initialized>>

\* self._initialized = True (line 84)
CallerFinishes ==
    \E t \in Callers :
        /\ pc[t] = "finish"
        /\ initialized' = TRUE
        /\ Goes(t, "initialized")
        /\ UNCHANGED <<validator_vars, call, result, rules_file, env,
                       rules, collection, embedder, index>>

\* the rest of the call, which reads the engine and changes nothing
CallerRuns ==
    \E t \in Callers :
        /\ pc[t] = "initialized"
        /\ Goes(t, "done")
        /\ UNCHANGED <<validator_vars, call, result, engine_vars>>

NextConc ==
    \/ CallerTests \/ CallerLoads \/ CallerSetsUp \/ CallerCounts
    \/ CallerEmbeds \/ CallerFinishes \/ CallerRuns

SpecConc == InitConc /\ [][NextConc]_vars

----------------------------------------------------------------------------
(* What the properties below read from a state *)

IsValidateCall == call.op = "validate_formula"
IsReport == IsValidateCall /\ result.kind = "report"

Count(seq, Test(_)) == Cardinality({ i \in 1..Len(seq) : Test(seq[i]) })

\* the entry's limit, the allergen's threshold and the cap of one category
CategoryLimit(entry, category) ==
    IF category = "cat1" THEN entry.max_concentration_cat1
    ELSE entry.max_concentration_cat2

CategoryThreshold(entry, category) ==
    IF category = "cat1" THEN Get(entry, "threshold_cat1", DefaultThreshold)
    ELSE Get(entry, "threshold_cat2", DefaultThreshold)

CategoryCap(std, category) ==
    IF "total_allergen_limits" \notin DOMAIN std THEN DefaultMaxTotal
    ELSE IF category = "cat1"
    THEN std.total_allergen_limits.cat1_leave_on.max_total_percentage
    ELSE std.total_allergen_limits.cat2_rinse_off.max_total_percentage

SameName(x, y) == Lower(x) = Lower(y)

EitherContains(x, y) == StrIn(Lower(x), Lower(y)) \/ StrIn(Lower(y), Lower(x))

DistinctNames(entries) ==
    \A i, j \in 1..Len(entries) : i # j => ~SameName(entries[i].name, entries[j].name)

----------------------------------------------------------------------------
\* C1: in every report validate_formula returns, is_compliant is true exactly
\* when no violation of the report has severity critical.
C1_CompliantIffNoCritical ==
    IsReport =>
        (result.report.is_compliant
            <=> \A i \in 1..Len(result.report.violations) :
                    result.report.violations[i].severity # "critical")

\* a compliant report all of whose violations are warnings
C1_Witness ==
    /\ IsReport
    /\ Len(result.report.violations) >= 1
    /\ \A i \in 1..Len(result.report.violations) :
           result.report.violations[i].severity = "warning"
    /\ result.report.is_compliant

\* C2: an ingredient named, up to case, like a restricted entry whose limit for
\* the requested category is 0 gets a banned violation (critical, max_allowed 0)
\* and the report is not compliant.  Stated for tables whose restricted names
\* are distinct and for calls that returned a report.
C2_BannedForRequestedCategory ==
    (IsReport /\ DistinctNames(standards.restricted_substances)) =>
        \A i \in 1..Len(call.ingredients) :
            \A k \in 1..Len(standards.restricted_substances) :
                LET ing == call.ingredients[i]
                    entry == standards.restricted_substances[k]
                IN  (/\ SameName(entry.name, IngName(ing))
                     /\ CategoryLimit(entry, call.product_category) = 0)
                    => /\ ~result.report.is_compliant
                       /\ \E v \in 1..Len(result.report.violations) :
                            result.report.violations[v] =
                                Violation(IngName(ing), "banned",
                                          IngConcentration(ing), 0, "critical")

\* C3: an ingredient named like a restricted entry with limit L > 0 for the
\* requested category gets an over_limit violation (critical, max_allowed L)
\* when its concentration is above L, and none when it is at most L.
C3_OverLimitForRequestedCategory ==
    (IsReport /\ DistinctNames(standards.restricted_substances)) =>
        \A i \in 1..Len(call.ingredients) :
            \A k \in 1..Len(standards.restricted_substances) :
                LET ing == call.ingredients[i]
                    entry == standards.restricted_substances[k]
                    L == CategoryLimit(entry, call.product_category)
                    over == \E v \in 1..Len(result.report.violations) :
                                result.report.violations[v] =
                                    Violation(IngName(ing), "over_limit",
                                              IngConcentration(ing), L, "critical")
                    any == \E v \in 1..Len(result.report.violations) :
                                /\ result.report.violations[v].ingredient_name = IngName(ing)
                                /\ result.report.violations[v].violation_type = "over_limit"
                IN  (/\ SameName(entry.name, IngName(ing))
                     /\ L > 0
                     /\ IsNumber(IngConcentration(ing)))
                    => IF IngConcentration(ing) > L THEN over ELSE ~any

\* C4: the limits a report carries are those of the category asked for: each
\* over_limit violation carries that category's limit of the restricted entry
\* it matched, each declared allergen that category's threshold of an allergen
\* entry it matched, and the allergen_load violation that category's cap.
C4_LimitsOfRequestedCategory ==
    IsReport =>
        LET cat == call.product_category
            rep == result.report
        IN  /\ \A v \in 1..Len(rep.violations) :
                   rep.violations[v].violation_type = "over_limit" =>
                       \E k \in 1..Len(standards.restricted_substances) :
                           LET entry == standards.restricted_substances[k]
                           IN  /\ SameName(entry.name, rep.violations[v].ingredient_name)
                               /\ CategoryLimit(entry, cat) = rep.violations[v].max_allowed
            /\ \A d \in 1..Len(rep.allergens_to_declare) :
                   \E k \in 1..Len(standards.allergens_declaration_required) :
                       LET entry == standards.allergens_declaration_required[k]
                       IN  /\ EitherContains(entry.name, rep.allergens_to_declare[d].name)
                           /\ CategoryThreshold(entry, cat) = rep.allergens_to_declare[d].threshold
            /\ \A v \in 1..Len(rep.violations) :
                   rep.violations[v].violation_type = "allergen_load" =>
                       rep.violations[v].max_allowed = CategoryCap(standards, cat)

\* an ingredient crossed a declaration threshold: some allergen entry matches
\* its name and its concentration is at or above that entry's threshold (> 0)
Crossed(ing, std, category) ==
    /\ IsNumber(IngConcentration(ing))
    /\ \E k \in 1..Len(std.allergens_declaration_required) :
           LET entry == std.allergens_declaration_required[k]
           IN  /\ EitherContains(entry.name, IngName(ing))
               /\ CategoryThreshold(entry, category) > 0
               /\ IngConcentration(ing) >= CategoryThreshold(entry, category)

RECURSIVE SumCrossed(_, _, _, _)
SumCrossed(ingredients, std, category, i) ==
    IF i > Len(ingredients) THEN 0
    ELSE (IF Crossed(ingredients[i], std, category)
          THEN IngConcentration(ingredients[i]) ELSE 0)
         + SumCrossed(ingredients, std, category, i + 1)

\* C5: total_allergen_load is the sum of the concentrations of the ingredients
\* that crossed a declaration threshold, each counted once, and
\* allergens_to_declare holds one entry per such ingredient.  Stated for cat1
\* and for ingredients that all carry a name.
C5_LoadCountsEachIngredientOnce ==
    (/\ IsReport
     /\ call.product_category = "cat1"
     /\ \A i \in 1..Len(call.ingredients) : IngName(call.ingredients[i]) # <<>>) =>
        /\ result.report.total_allergen_load =
               SumCrossed(call.ingredients, standards, "cat1", 1)
        /\ Len(result.report.allergens_to_declare) =
               Cardinality({ i \in 1..Len(call.ingredients) :
                               Crossed(call.ingredients[i], standards, "cat1") })

\* C6: a report holds exactly one allergen_load violation, a warning, when its
\* total_allergen_load is above the cap of the requested category, and none
\* otherwise; a report whose only violation is allergen_load is compliant.
C6_AllergenLoadWarning ==
    IsReport =>
        LET rep == result.report
            loads == { v \in 1..Len(rep.violations) :
                         rep.violations[v].violation_type = "allergen_load" }
        IN  /\ Cardinality(loads) =
                   (IF rep.total_allergen_load > CategoryCap(standards, call.product_category)
                    THEN 1 ELSE 0)
            /\ \A v \in loads : rep.violations[v].severity = "warning"
            /\ (Len(rep.violations) = 1 /\ loads # {}) => rep.is_compliant

\* C7: validate_formula returns a report, and raises nothing, for every
\* ingredient list.
C7_ValidateNeverRaises ==
    IsValidateCall => result.kind = "report"

\* no ingredient name matches any entry of the three tables
NoNameMatches ==
    \A i \in 1..Len(call.ingredients) :
        LET name == IngName(call.ingredients[i])
        IN  /\ \A k \in 1..Len(standards.restricted_substances) :
                   ~SameName(standards.restricted_substances[k].name, name)
            /\ \A k \in 1..Len(standards.phototoxicity_limits) :
                   ~EitherContains(standards.phototoxicity_limits[k].name, name)
            /\ \A k \in 1..Len(standards.allergens_declaration_required) :
                   ~EitherContains(standards.allergens_declaration_required[k].name, name)

\* C8: when no ingredient name matches any policy entry, validate_formula
\* returns a report with no violation, nothing to declare, load 0 and
\* is_compliant true, whatever the concentrations are.
C8_UnmatchedNamesAreClean ==
    (IsValidateCall /\ NoNameMatches) =>
        /\ result.kind = "report"
        /\ result.report.violations = <<>>
        /\ result.report.allergens_to_declare = <<>>
        /\ result.report.total_allergen_load = 0
        /\ result.report.is_compliant

\* unmatched ingredients, one of them with a concentration that is no number,
\* validated against tables that hold entries
C8_Witness ==
    /\ IsValidateCall
    /\ NoNameMatches
    /\ Len(call.ingredients) = MaxIngredients
    /\ \E i \in 1..Len(call.ingredients) : ~IsNumber(IngConcentration(call.ingredients[i]))
    /\ \E i \in 1..Len(call.ingredients) : IngConcentration(call.ingredients[i]) = 3
    /\ Len(standards.restricted_substances) >= 1
    /\ Len(standards.allergens_declaration_required) >= 1
    /\ result.kind = "report"

\* C9: the summary is chosen by a three-way branch and the counts it carries
\* are the counts of the same report: no violation gives the fully compliant
\* summary; compliant with violations gives the number of warning violations
\* and of allergens to declare; not compliant gives the number of critical
\* violations.
C9_SummaryBranches ==
    IsReport =>
        LET rep == result.report
            warnings == Count(rep.violations, LAMBDA v : v.severity = "warning")
            critical == Count(rep.violations, LAMBDA v : v.severity = "critical")
        IN  /\ Len(rep.violations) = 0 =>
                   rep.summary = [kind |-> "fully_compliant"]
            /\ (rep.is_compliant /\ Len(rep.violations) > 0) =>
                   rep.summary = [kind |-> "compliant_with_warnings",
                                  warnings |-> warnings,
                                  allergens |-> Len(rep.allergens_to_declare)]
            /\ ~rep.is_compliant =>
                   rep.summary = [kind |-> "not_compliant", critical |-> critical]

\* a report with a warning and critical violations, whose summary counts the
\* critical ones
C9_Witness ==
    /\ IsReport
    /\ result.report.summary.kind = "not_compliant"
    /\ result.report.summary.critical = 2
    /\ Len(result.report.violations) = 3

\* the first entry of a list that satisfies a test, or none
FirstIndex(entries, Test(_)) ==
    IF \E k \in 1..Len(entries) : Test(entries[k])
    THEN CHOOSE k \in 1..Len(entries) :
             Test(entries[k]) /\ \A j \in 1..(k - 1) : ~Test(entries[j])
    ELSE 0

\* C10: get_max_concentration returns the limit of the first restricted entry
\* named like the ingredient up to case; otherwise the limit of the first
\* phototoxicity entry whose name lies inside the ingredient name or the other
\* way round; otherwise None (unrestricted), which is not the limit 0.
\* Stated for cat1 and a name that is not empty.
C10_MaxConcentrationLookup ==
    (/\ call.op = "get_max_concentration"
     /\ call.product_category = "cat1"
     /\ call.ingredient_name # <<>>) =>
        LET r == FirstIndex(standards.restricted_substances,
                            LAMBDA e : SameName(e.name, call.ingredient_name))
            p == FirstIndex(standards.phototoxicity_limits,
                            LAMBDA e : EitherContains(e.name, call.ingredient_name))
        IN  result =
                IF r # 0
                THEN [kind |-> "value",
                      value |-> standards.restricted_substances[r].max_concentration_cat1]
                ELSE IF p # 0
                THEN [kind |-> "value",
                      value |-> standards.phototoxicity_limits[p].max_concentration_cat1]
                ELSE [kind |-> "none"]

----------------------------------------------------------------------------
\* C11: is_allergen(name) is true exactly when some allergen entry's lowercased
\* name lies inside the lowercased name or the other way round, which is the
\* test validate_formula applies to the keys of its allergen map.
C11_IsAllergenBidirectional ==
    call.op = "is_allergen" =>
        /\ result.value <=>
               \E k \in 1..Len(standards.allergens_declaration_required) :
                   EitherContains(standards.allergens_declaration_required[k].name,
                                  call.ingredient_name)
        /\ result.value <=>
               \E k \in 1..Len(DictItems(standards.allergens_declaration_required)) :
                   NameMatches(DictItems(standards.allergens_declaration_required)[k].key,
                               Lower(call.ingredient_name))

\* a name that lies inside an entry name without containing it is an allergen
C11_Witness ==
    /\ call.op = "is_allergen"
    /\ call.ingredient_name = <<"b">>
    /\ result.value
    /\ \A k \in 1..Len(standards.allergens_declaration_required) :
           Lower(standards.allergens_declaration_required[k].name) = <<"a", "b">>


----------------------------------------------------------------------------
(* What the engine's properties read from a state *)

\* the operator semantics of a rule's condition against a profile: both
\* numeric and u < v, both numeric and u > v, u == v with the same type, u a
\* list holding v; everything else is no match
ConditionHolds(rule, profile) ==
    LET c == rule.condition
    IN  /\ {"parameter", "operator", "value"} \subseteq DOMAIN c
        /\ c.parameter \in DOMAIN profile
        /\ LET u == profile[c.parameter]
               v == c.value
           IN  \/ c.operator = "<" /\ IsNumeric(u) /\ IsNumeric(v) /\ u.num < v.num
               \/ c.operator = ">" /\ IsNumeric(u) /\ IsNumeric(v) /\ u.num > v.num
               \/ c.operator = "==" /\ DOMAIN u = DOMAIN v /\ u = v
               \/ c.operator = "contains" /\ IsList(u)
                    /\ \E i \in 1..Len(u.list) : DOMAIN u.list[i] = DOMAIN v /\ u.list[i] = v

\* the rules of the configuration source
SourceRules == IF rules_file.exists THEN rules_file.json.rules ELSE <<>>

\* the embedding / vector index capability is there when both packages import
CapabilityPresent == env.chromadb /\ env.sentence_transformers

FallbackMode == collection = "None"

\* a profile whose values have the type its key is documented with
WellTyped(profile) ==
    /\ "ph" \in DOMAIN profile => IsNumeric(profile.ph)
    /\ "temperature" \in DOMAIN profile => IsNumeric(profile.temperature)
    /\ "skin_type" \in DOMAIN profile => IsStr(profile.skin_type)
    /\ "allergies" \in DOMAIN profile => IsList(profile.allergies)

NoRepeat(seq) == \A i, j \in 1..Len(seq) : i # j => seq[i] # seq[j]

IsIn(x, seq) == \E i \in 1..Len(seq) : seq[i] = x

----------------------------------------------------------------------------
\* C12: in fallback mode query(profile, n) returns at most n rules, for every
\* n; each returned rule's condition holds for the profile; and each is among
\* the rules get_applicable_rules returns for the profile.  Stated for the
\* calls that return some rule.
C12_FallbackQueryCapped ==
    (/\ call.op = "query" /\ FallbackMode
     /\ result.kind = "rules" /\ Len(result.value) > 0) =>
        /\ Len(result.value) <= call.n_results
        /\ \A i \in 1..Len(result.value) :
               /\ ConditionHolds(result.value[i].rule, call.user_profile)
               /\ IsIn(result.value[i].rule, ApplicableRules(rules, call.user_profile))

----------------------------------------------------------------------------
\* C13: on an initialized engine, a fallback-mode query and
\* get_applicable_rules return normally whatever the types of the profile's
\* values, and return only rules whose condition holds.
C13_WrongTypesAreNonMatches ==
    (/\ call.op \in {"query", "get_applicable_rules"}
     /\ call.was_initialized /\ FallbackMode) =>
        /\ result.kind = "rules"
        /\ \A i \in 1..Len(result.value) :
               ConditionHolds(IF call.op = "query" THEN result.value[i].rule
                              ELSE result.value[i], call.user_profile)

----------------------------------------------------------------------------
\* C14: when chromadb or sentence_transformers cannot be imported, initialize
\* returns with the engine initialized and in fallback mode, and a query with a
\* well-typed profile and n >= 0 returns the keyword matches.
C14_AbsentCapabilityFallsBack ==
    ~CapabilityPresent =>
        /\ call.op = "initialize" =>
               result.kind = "returned" /\ initialized /\ (call.use_vector_db => FallbackMode)
        /\ (call.op = "query" /\ WellTyped(call.user_profile) /\ call.n_results >= 0) =>
               /\ initialized
               /\ result.kind = "rules"
               /\ \A i \in 1..Len(result.value) :
                      /\ ConditionHolds(result.value[i].rule, call.user_profile)
                      /\ result.value[i].relevance_score = [num |-> 9, den |-> 10]

----------------------------------------------------------------------------
\* C15: whatever the embedding or the add does while the index is built, an
\* initialization (explicit, or the lazy one of a query) completes: initialize
\* returns, and the engine is initialized afterwards.
C15_BuildErrorFallsBack ==
    /\ call.op = "initialize" => result.kind = "returned" /\ initialized
    /\ call.op = "query" => initialized

----------------------------------------------------------------------------
\* C16: after any sequence of calls the engine holds each rule of the
\* configuration source exactly once (or none before the first load), and
\* get_applicable_rules never returns a rule twice.
C16_RulesHeldOnce ==
    /\ rules = <<>> \/ rules = SourceRules
    /\ (call.op = "get_applicable_rules" /\ result.kind = "rules") => NoRepeat(result.value)

----------------------------------------------------------------------------
----------------------------------------------------------------------------
\* C19: a query that returns, in vector mode or in fallback mode, includes
\* every rule the engine holds whose condition holds for the profile.  Stated
\* for n at least the number of such rules, so that the cap leaves room.
C19_BothModesIncludeMatches ==
    (/\ call.op = "query" /\ result.kind = "rules"
     /\ call.n_results >= Len(SelectSeq(rules, LAMBDA r : ConditionHolds(r, call.user_profile)))) =>
        \A k \in 1..Len(rules) :
            ConditionHolds(rules[k], call.user_profile) =>
                \E i \in 1..Len(result.value) : result.value[i].rule = rules[k]

----------------------------------------------------------------------------
\* C20: get_applicable_rules returns, in vector mode as in fallback mode, every
\* rule the engine holds whose condition holds for the profile, in the order
\* the engine holds them.
C20_ApplicableRulesInEitherMode ==
    (call.op = "get_applicable_rules" /\ result.kind = "rules") =>
        result.value = SelectSeq(rules, LAMBDA r : ConditionHolds(r, call.user_profile))

\* in vector mode, two different rules returned
C20_Witness ==
    /\ call.op = "get_applicable_rules" /\ result.kind = "rules"
    /\ ~FallbackMode /\ Len(index) > 0
    /\ Len(result.value) = 2
    /\ result.value[1].id # result.value[2].id


----------------------------------------------------------------------------
\* C18: when callers make their first calls concurrently, in every
\* interleaving the rules are loaded once and the index is built once: the
\* engine never holds more rules than the source, nor the index more entries.
C18_BuiltOnceUnderConcurrency ==
    /\ Len(rules) <= Len(SourceRules)
    /\ Len(index) <= Len(SourceRules)


----------------------------------------------------------------------------
\* C21: when ifra_standards.json is absent, loading does not fail: the
\* validator holds the empty tables, every validate_formula call returns a
\* compliant report without violations, get_max_concentration returns None
\* (unrestricted) and is_allergen returns False, whatever the arguments.
C21_AbsentSourceIsEmptyPolicy ==
    (~file.exists /\ call.op # "none") =>
        /\ loaded
        /\ standards = [restricted_substances |-> <<>>,
                        allergens_declaration_required |-> <<>>,
                        phototoxicity_limits |-> <<>>]
        /\ call.op = "validate_formula" =>
               /\ result.kind = "report"
               /\ result.report.is_compliant
               /\ result.report.violations = <<>>
               /\ result.report.allergens_to_declare = <<>>
        /\ call.op = "get_max_concentration" => result = [kind |-> "none"]
        /\ call.op = "is_allergen" => result = [kind |-> "bool", value |-> FALSE]

\* no file, and a list whose ingredients would match entries "a" and carry a
\* concentration that is no number
C21_Witness ==
    /\ ~file.exists
    /\ call.op = "validate_formula"
    /\ Len(call.ingredients) = MaxIngredients
    /\ \E i \in 1..Len(call.ingredients) :
           /\ IngName(call.ingredients[i]) = <<"A">>
           /\ ~IsNumber(IngConcentration(call.ingredients[i]))
    /\ result.kind = "report"


----------------------------------------------------------------------------
(* Malformed sources *)

NamedEntries(entries) == \A i \in 1..Len(entries) : "name" \in DOMAIN entries[i]

\* the policy file is there and is no JSON, or holds an entry without a name
PolicyMalformed ==
    /\ file.exists
    /\ \/ "json" \notin DOMAIN file
       \/ ~NamedEntries(file.json.restricted_substances)
       \/ ~NamedEntries(file.json.allergens_declaration_required)
       \/ ~NamedEntries(file.json.phototoxicity_limits)

\* the rules file is there and is no JSON, or holds a rule without an id
RulesMalformed ==
    /\ rules_file.exists
    /\ \/ "json" \notin DOMAIN rules_file
       \/ \E i \in 1..Len(rules_file.json.rules) : "id" \notin DOMAIN rules_file.json.rules[i]

\* C22: with a malformed policy file every validate_formula call raises and
\* the validator is never marked loaded; with a malformed rules file every
\* initialize, query and get_applicable_rules call raises and the engine is
\* never marked initialized.
C22_MalformedSourceIsFatal ==
    /\ PolicyMalformed =>
           /\ ~loaded
           /\ call.op = "validate_formula" => result.kind = "raised"
    /\ RulesMalformed =>
           /\ ~initialized
           /\ call.op \in {"initialize", "query", "get_applicable_rules"} =>
                  result.kind = "raised"

----------------------------------------------------------------------------
(* Frame of the calls *)

\* C23: once loaded, the policy tables and the loaded flag never change again,
\* whatever is called and whatever happens to the file afterwards (the file is
\* read at most once); query and get_applicable_rules on an initialized engine
\* leave the rules, the collection, the embedder, the initialized flag and
\* the indexed ids as they were.
C23_ReadOnlyOnceLoaded ==
    [][ /\ loaded => (standards' = standards /\ loaded')
        /\ (initialized /\ call'.op \in {"query", "get_applicable_rules"}) =>
               /\ rules' = rules
               /\ collection' = collection
               /\ embedder' = embedder
               /\ index' = index
               /\ initialized' ]_vars

\* a validate_formula call answered from the tables loaded before the file
\* was deleted
C23_Witness ==
    /\ call.op = "validate_formula"
    /\ loaded
    /\ ~file.exists
    /\ Len(standards.restricted_substances) > 0
    /\ result.kind = "report"
    /\ Len(result.report.violations) > 0

----------------------------------------------------------------------------
(* The mode chosen by initialize *)

\* C24: when initialize(use_vector_db=False) has returned, the engine is in
\* keyword mode (no collection is held, so the next query takes the keyword
\* path), whatever was called before.
C24_InitializeFalseIsKeywordMode ==
    (call.op = "initialize" /\ ~call.use_vector_db /\ result.kind = "returned")
        => FallbackMode

----------------------------------------------------------------------------
(* The phototoxicity check *)

\* the different entries of a table
EntrySet(entries) == { entries[j] : j \in 1..Len(entries) }

\* the different entries have different names up to case
OneEntryPerName(entries) ==
    \A x, y \in EntrySet(entries) : SameName(x.name, y.name) => x = y

\* the pairs (ingredient, phototoxicity entry) that match in either direction
\* with the ingredient's concentration strictly over the entry's limit, and
\* for which validate_formula must then emit v
PhototoxPairsFor(v) ==
    { p \in (1..Len(call.ingredients)) \X EntrySet(standards.phototoxicity_limits) :
        LET ing == call.ingredients[p[1]]
            entry == p[2]
        IN  /\ EitherContains(IngName(ing), entry.name)
            /\ IngConcentration(ing) > entry.max_concentration_cat1
            /\ v = Violation(IngName(ing), "phototoxicity", IngConcentration(ing),
                             entry.max_concentration_cat1, "critical") }

\* every phototoxicity violation an ingredient list can call for, and those
\* the report holds
PhototoxViolations ==
    { Violation(IngName(call.ingredients[i]), "phototoxicity",
                IngConcentration(call.ingredients[i]), e.max_concentration_cat1, "critical") :
        i \in 1..Len(call.ingredients), e \in EntrySet(standards.phototoxicity_limits) }
    \cup { result.report.violations[j] : j \in
             { k \in 1..Len(result.report.violations) :
                 result.report.violations[k].violation_type = "phototoxicity" } }

----------------------------------------------------------------------------
(* The allergen-declaration check *)

\* the allergen entries that match an ingredient in either direction
MatchingAllergens(ing) ==
    { e \in EntrySet(standards.allergens_declaration_required) :
        EitherContains(IngName(ing), e.name) }

Declared(ing, threshold) ==
    \E k \in 1..Len(result.report.allergens_to_declare) :
        result.report.allergens_to_declare[k] =
            [name |-> IngName(ing), concentration |-> IngConcentration(ing),
             threshold |-> threshold]

DeclaredAtAll(ing) ==
    \E k \in 1..Len(result.report.allergens_to_declare) :
        /\ result.report.allergens_to_declare[k].name = IngName(ing)
        /\ result.report.allergens_to_declare[k].concentration = IngConcentration(ing)

\* C26: in every report, for every ingredient and every allergen entry that
\* match in either direction, with T the entry's threshold for the requested
\* category: if T is 0 the report holds a critical banned violation for the
\* ingredient; else if the concentration is at or above T the ingredient is in
\* allergens_to_declare with threshold T and the load is at least its
\* concentration; and an ingredient below the thresholds (above 0) of all the
\* entries it matches is not declared, and nothing is counted when no
\* ingredient is declared.
C26_AllergenBranches ==
    IsReport =>
        /\ \A i \in 1..Len(call.ingredients) :
               LET ing == call.ingredients[i]
                   conc == IngConcentration(ing)
               IN  /\ \A e \in MatchingAllergens(ing) :
                          LET T == CategoryThreshold(e, call.product_category)
                          IN  /\ T = 0 =>
                                     \E k \in 1..Len(result.report.violations) :
                                         result.report.violations[k] =
                                             Violation(IngName(ing), "banned", conc, 0, "critical")
                              /\ (T > 0 /\ conc >= T) =>
                                     /\ Declared(ing, T)
                                     /\ result.report.total_allergen_load >= conc
                   /\ (\A e \in MatchingAllergens(ing) :
                           LET T == CategoryThreshold(e, call.product_category)
                           IN  T > 0 /\ conc < T) => ~DeclaredAtAll(ing)
        /\ Len(result.report.allergens_to_declare) = 0 =>
               result.report.total_allergen_load = 0

----------------------------------------------------------------------------
(* The keyword path *)

\* C27: in fallback mode, a query with n_results >= 0 that returns holds the
\* first min(n_results, k) of the k rules whose condition holds for the
\* profile, in the order of the rule set, which are also the first rules
\* get_applicable_rules returns; each carries the relevance 0.9, and no rule
\* whose condition does not hold is returned.
C27_FallbackIsPrefixOfApplicable ==
    (/\ call.op = "query" /\ FallbackMode
     /\ result.kind = "rules" /\ call.n_results >= 0) =>
        LET holding == SelectSeq(rules, LAMBDA r : ConditionHolds(r, call.user_profile))
            m == Min(call.n_results, Len(holding))
        IN  /\ Len(result.value) = m
            /\ \A i \in 1..m :
                   /\ result.value[i].rule = holding[i]
                   /\ result.value[i].rule = ApplicableRules(rules, call.user_profile)[i]
                   /\ result.value[i].relevance_score = [num |-> 9, den |-> 10]

\* a fallback query for one rule where two different rules apply
C27_Witness ==
    /\ call.op = "query" /\ FallbackMode
    /\ result.kind = "rules"
    /\ call.n_results = 1
    /\ Len(result.value) = 1
    /\ LET holding == SelectSeq(rules, LAMBDA r : ConditionHolds(r, call.user_profile))
       IN  /\ Len(holding) >= 2
           /\ holding[1] # holding[2]

----------------------------------------------------------------------------
(* The vector path *)

\* a query that asked the index and got its answer
VectorCall == call.op = "query" /\ call.index_asked

HasRule(rule_id) == \E i \in 1..Len(rules) : rules[i].id = rule_id

\* the first rule held under an id
RuleOf(rule_id) ==
    rules[CHOOSE i \in 1..Len(rules) :
            /\ rules[i].id = rule_id
            /\ \A j \in 1..(i - 1) : rules[j].id # rule_id]

\* C28: a vector-mode query returns, in the order of the index's answer, the
\* rule held under each id the index returned, leaving out the ids under
\* which no rule is held; it returns at most n_results rules (none when
\* n_results is below 0); each rule's relevance is 1 / (1 + d) for the distance
\* d the index reported with that id; and the relevance does not increase
\* along the list.
C28_VectorQueryFollowsIndex ==
    VectorCall =>
        LET found == SelectSeq(call.index_answer, LAMBDA a : HasRule(a.id))
            value == result.value
        IN  /\ result.kind = "rules"
            /\ Len(value) = Len(found)
            /\ \A j \in 1..Len(found) :
                   /\ value[j].rule = RuleOf(found[j].id)
                   /\ value[j].relevance_score = [num |-> 1, den |-> 1 + found[j].distance]
            /\ Len(value) <= (IF call.n_results >= 0 THEN call.n_results ELSE 0)
            /\ \A i, j \in 1..Len(value) :
                   i < j => value[i].relevance_score.num * value[j].relevance_score.den
                              >= value[j].relevance_score.num * value[i].relevance_score.den

\* the index returned two ids at different distances, the nearest one with no
\* rule held under it, and the query returned the other one's rule
C28_Witness ==
    /\ VectorCall
    /\ Len(call.index_answer) = 2
    /\ ~HasRule(call.index_answer[1].id)
    /\ HasRule(call.index_answer[2].id)
    /\ call.index_answer[1].distance < call.index_answer[2].distance
    /\ Len(result.value) = 1

----------------------------------------------------------------------------
(* get_max_concentration against validate_formula *)

\* the concentrations tried
TriedConcentrations == 0..3

\* validate_formula on the one ingredient finds a banned, over_limit or
\* phototoxicity violation in its restricted-substance and phototoxicity
\* checks (the allergen table is left out)
Flagged(ingredient_name, concentration) ==
    LET std == [standards EXCEPT !.allergens_declaration_required = <<>>]
        out == ValidateFormula(std, <<[name |-> ingredient_name,
                                       concentration |-> concentration]>>, "cat1")
    IN  /\ out.kind = "report"
        /\ \E k \in 1..Len(out.report.violations) :
               out.report.violations[k].violation_type
                   \in {"banned", "over_limit", "phototoxicity"}

\* C29: when get_max_concentration(name, 'cat1') returns None, validate_formula
\* on one ingredient of that name finds no banned, over_limit or phototoxicity
\* violation at any concentration; when it returns a limit L, validate_formula
\* finds one exactly when the concentration is above L, or always when L is 0.
C29_MaxConcentrationAgreesWithValidate ==
    (call.op = "get_max_concentration" /\ call.product_category = "cat1") =>
        \A c \in TriedConcentrations :
            /\ result.kind = "none" => ~Flagged(call.ingredient_name, c)
            /\ result.kind = "value" =>
                   (Flagged(call.ingredient_name, c) <=>
                        (result.value = 0 \/ c > result.value))

----------------------------------------------------------------------------
(* The /validate response against the report *)

\* C30: the response of /validate agrees with the report validate_formula
\* returns for the request: compliant is the report's is_compliant, warnings
\* are those of the violations with severity warning, max_allergen_limit is
\* the cap total_allergen_load was compared against, and allergen_total is
\* above max_allergen_limit exactly when an allergen_load violation is listed.
C30_ResponseAgreesWithReport ==
    (call.op = "validate_endpoint" /\ result.kind = "response") =>
        LET report == ValidateFormula(standards, call.ingredients,
                                      call.product_category).report
            response == result.response
            warned == SelectSeq(report.violations, LAMBDA v : v.severity = "warning")
        IN  /\ response.compliant = report.is_compliant
            /\ Len(response.warnings) = Len(warned)
            /\ \A k \in 1..Len(warned) :
                   /\ response.warnings[k].ingredient = warned[k].ingredient_name
                   /\ response.warnings[k].type = warned[k].violation_type
            /\ response.allergen_total = report.total_allergen_load
            /\ response.max_allergen_limit = MaxTotal(standards)
            /\ (response.allergen_total > response.max_allergen_limit) <=>
                   \E k \in 1..Len(response.violations) :
                       response.violations[k].type = "allergen_load"

====
